---- MODULE Spec2Model ----
(***************************************************************************)
(* Model of src/main.rs: an axum server with four routes over a PostgreSQL *)
(* store reached through an sqlx pool.                                     *)
(*                                                                         *)
(* State: the position of main (startup), the pool, the three tables of    *)
(* the store, and the bag of requests in flight, each at its await point.  *)
(* UUIDs are small naturals; text values are strings.                      *)
(***************************************************************************)
EXTENDS Naturals, Integers, Sequences, FiniteSets, Bags, TLC

VARIABLES
    proc,          \* position of main: "start", "connect", "bind", "serving", "aborted"
    env_url,       \* DATABASE_URL is set in the process environment
    dotenv_url,    \* DATABASE_URL is set in the .env file
    port_free,     \* 127.0.0.1:3000 can be bound
    store_up,      \* the store answers connections and statements
    n_connect,     \* number of calls of PgPoolOptions::connect made by main
    pool_created,  \* the PgPool exists
    checked_out,   \* connections of the pool checked out by handlers
    product,       \* table product: sequence of rows
    customer,      \* table customer: sequence of rows
    orders,        \* table "order": sequence of rows
    orders0,       \* the rows of "order" when the process started (history)
    now,           \* the wall clock (Utc::now)
    inflight,      \* bag of requests being handled
    returned,      \* set of the Order rows carried by the 200 responses sent so far (history)
    logged         \* the errors the handlers have written to the error stream

vars == <<proc, env_url, dotenv_url, port_free, store_up, n_connect, pool_created,
          checked_out, product, customer, orders, orders0, now, inflight, returned, logged>>

----------------------------------------------------------------------------
(* Bounds of the model *)

MaxInFlight == 2       \* requests in flight at once (Spec)
MaxOrders == 2         \* rows of "order" (Spec, SpecPool)
MaxStartupLoad == 1    \* requests in flight at once (SpecStartup)
MaxStartupOrders == 1  \* rows of "order" (SpecStartup)
MaxClock == 1          \* instants of the wall clock
MaxPoolLoad == 6       \* requests in flight at once (SpecPool)

(* Program constants *)

max_connections == 5

----------------------------------------------------------------------------
(* Record mappers: the fields of the structs *)

ProductFields == {"id", "name"}
CustomerFields == {"id", "name"}
OrderFields == {"id", "customer_id", "product_id", "quantity", "order_date"}
NewOrderFields == {"customer_id", "product_id", "quantity"}

Range(s) == {s[i] : i \in DOMAIN s}
Ids(table) == {table[i].id : i \in DOMAIN table}

(* Rows the store may hold when the process starts *)

ProductRow(id, name) == [id |-> id, name |-> name]
CustomerRow(id, name) == [id |-> id, name |-> name]
OrderRow(id, c, p, q, d) ==
    [id |-> id, customer_id |-> c, product_id |-> p, quantity |-> q, order_date |-> d]

InitProducts ==
    { <<ProductRow(11, "widget")>>,
      <<ProductRow(11, "widget"), ProductRow(12, "gadget")>> }
InitCustomers == { <<CustomerRow(21, "ada")>> }
InitOrders == { <<>>, <<OrderRow(1, 21, 11, 7, 0)>> }
OrderUuids(cap) == 1..cap

----------------------------------------------------------------------------
(* The request body of POST /orders and its extraction, Json<NewOrder>.    *)
(* A JSON value is [k, v]: k = "int" (a number without fraction within the *)
(* range of i32, v its value), "big" (a number without fraction beyond     *)
(* that range), "float" (a number with a fraction), "str" (a string; v is  *)
(* the UUID its text spells, or 0 when the text is no UUID).               *)

JInt(n) == [k |-> "int", v |-> n]
JBig == [k |-> "big", v |-> 0]
JFloat == [k |-> "float", v |-> 0]
JUuid(u) == [k |-> "str", v |-> u]
JText == [k |-> "str", v |-> 0]

\* A raw body: the Content-Type header names JSON (ctype), the bytes are
\* well-formed JSON (syntax), and the members of the JSON object.
RawBody(ctype, syntax, members) == [ctype |-> ctype, syntax |-> syntax, members |-> members]
Members(c, p, q) == [customer_id |-> c, product_id |-> p, quantity |-> q]
NoBody == RawBody(FALSE, FALSE, <<>>)

WellFormedBodies ==
    { RawBody(TRUE, TRUE, Members(JUuid(21), JUuid(11), JInt(3))),
      RawBody(TRUE, TRUE, Members(JUuid(99), JUuid(11), JInt(3))),
      RawBody(TRUE, TRUE, Members(JUuid(21), JUuid(12), JInt(-2))) }
MalformedBodies ==
    { RawBody(TRUE, TRUE, [customer_id |-> JUuid(21), product_id |-> JUuid(11)]),
      RawBody(TRUE, TRUE, Members(JUuid(21), JUuid(11), JFloat)),
      RawBody(TRUE, TRUE, Members(JText, JUuid(11), JInt(3))),
      RawBody(TRUE, TRUE, Members(JUuid(21), JUuid(11), JBig)),
      RawBody(TRUE, FALSE, <<>>),
      RawBody(FALSE, TRUE, Members(JUuid(21), JUuid(11), JInt(3))) }

\* serde: Uuid from a JSON string that spells a UUID
IsUuid(j) == j.k = "str" /\ j.v # 0
\* serde: i32 from a JSON integer in range
IsI32(j) == j.k = "int"

\* faulty variant: quantity is taken from any JSON value
DeserializesNewOrder_LaxQuantity(members) ==
    /\ NewOrderFields \subseteq DOMAIN members
    /\ IsUuid(members.customer_id)
    /\ IsUuid(members.product_id)

\* #[derive(Deserialize)] struct NewOrder: every field present and of its type
DeserializesNewOrder(members) ==
    /\ NewOrderFields \subseteq DOMAIN members
    /\ IsUuid(members.customer_id)
    /\ IsUuid(members.product_id)
    /\ IsI32(members.quantity)

NoPayload == [customer_id |-> 0, product_id |-> 0, quantity |-> 0]
NewOrder(members) ==
    [customer_id |-> members.customer_id.v,
     product_id |-> members.product_id.v,
     quantity |-> members.quantity.v]

\* The Json extractor in add_order's signature: the rejection's status, or
\* 0 when the body is extracted and the handler body is entered.
JsonRejection(raw) ==
    IF ~raw.ctype THEN 415
    ELSE IF ~raw.syntax THEN 400
    ELSE IF ~DeserializesNewOrder(raw.members) THEN 422
    ELSE 0

----------------------------------------------------------------------------
(* The store: the persisted schema and the execution of one statement.     *)

Table(name) ==
    CASE name = "product" -> product
      [] name = "customer" -> customer
      [] name = "order" -> orders

Project(row, cols) == [c \in cols |-> row[c]]

\* The result of a statement: the rows, or the error and its cause:
\* "unreachable" (no connection, or the connection is lost), "constraint"
\* (the store refuses the statement), "decode" (a column the struct needs is
\* missing from a row).
Ok(rows) == [ok |-> TRUE, rows |-> rows, cause |-> ""]
Err(cause) == [ok |-> FALSE, rows |-> <<>>, cause |-> cause]

\* SELECT cols FROM table: every row of the table, in storage order
SelectRows(stmt) ==
    [i \in DOMAIN Table(stmt.table) |-> Project(Table(stmt.table)[i], stmt.cols)]

\* faulty variant: the store checks no reference
ForeignKeysHold_Unchecked(row) == TRUE

\* "order" references customer and product
ForeignKeysHold(row) ==
    /\ row.customer_id \in Ids(customer)
    /\ row.product_id \in Ids(product)

\* the id column is filled by the store with a value no row of the table has
FreshIds(cap) == OrderUuids(cap) \ Ids(orders)

\* INSERT INTO table (columns) VALUES ($1, ...): the row to insert, given its id
Position(seq, x) == CHOOSE i \in DOMAIN seq : seq[i] = x
InsertedRow(stmt, id) ==
    [c \in {"id"} \cup Range(stmt.columns) |->
        IF c = "id" THEN id ELSE stmt.binds[Position(stmt.columns, c)]]

\* faulty variant: the statement rewrites the rows the table holds (UPDATE without WHERE)
InsertInto_UpdateAll(table, row) ==
    IF table = <<>> THEN <<row>>
    ELSE [i \in DOMAIN table |-> [row EXCEPT !.id = table[i].id]]

\* INSERT adds the row after the rows the table holds
InsertInto(table, row) == Append(table, row)

\* sqlx FromRow: every field of the struct is read from the column of its name
FromRow(rows, fields) ==
    IF \A i \in DOMAIN rows : fields \subseteq DOMAIN rows[i]
    THEN Ok([i \in DOMAIN rows |-> Project(rows[i], fields)])
    ELSE Err("decode")

----------------------------------------------------------------------------
(* Resource handlers: the statement each issues and the struct it decodes  *)
(* its rows into.                                                          *)

INTERNAL_SERVER_ERROR == 500
OK == 200

get_products ==
    [stmt |-> [table |-> "product", cols |-> {"id", "name"}],
     fields |-> ProductFields]

\* faulty variant: the customers are read from the table of the products
get_customers_from_product ==
    [stmt |-> [table |-> "product", cols |-> {"id", "name"}],
     fields |-> CustomerFields]

get_customers ==
    [stmt |-> [table |-> "customer", cols |-> {"id", "name"}],
     fields |-> CustomerFields]

get_orders ==
    [stmt |-> [table |-> "order",
               cols |-> {"id", "customer_id", "product_id", "quantity", "order_date"}],
     fields |-> OrderFields]

\* faulty variant: customer_id and product_id bound in each other's place
add_order_swapped(payload, date) ==
    [stmt |-> [table |-> "order",
               columns |-> <<"customer_id", "product_id", "quantity", "order_date">>,
               binds |-> <<payload.product_id, payload.customer_id, payload.quantity, date>>,
               cols |-> {"id", "customer_id", "product_id", "quantity", "order_date"}],
     fields |-> OrderFields]

add_order(payload, date) ==
    [stmt |-> [table |-> "order",
               columns |-> <<"customer_id", "product_id", "quantity", "order_date">>,
               binds |-> <<payload.customer_id, payload.product_id, payload.quantity, date>>,
               cols |-> {"id", "customer_id", "product_id", "quantity", "order_date"}],
     fields |-> OrderFields]

GetKinds == {"get_products", "get_customers", "get_orders"}

\* The router: GET /products, GET /customers, GET /orders
GetHandler(kind) ==
    CASE kind = "get_products" -> get_products
      [] kind = "get_customers" -> get_customers
      [] kind = "get_orders" -> get_orders

\* faulty variant: a failed statement is answered as a client error
HandlerReturn_BadRequest(res) ==
    IF res.ok THEN [status |-> OK, body |-> res.rows]
    ELSE [status |-> 400, body |-> <<>>]

\* faulty variant: a failed statement is answered 200 with an empty body
HandlerReturn_ErrAsOk(res) == [status |-> OK, body |-> res.rows]

\* .map_err(|err| { eprintln!(..); StatusCode::INTERNAL_SERVER_ERROR })?; Ok(Json(x))
HandlerReturn(res) ==
    IF res.ok THEN [status |-> OK, body |-> res.rows]
    ELSE [status |-> INTERNAL_SERVER_ERROR, body |-> <<>>]

\* eprintln!("Failed to ..: {}", err): the error written, without the prefix
HandlerLogs(res) == IF res.ok THEN {} ELSE {res.cause}

\* faulty variant: the handler ends the process when its statement fails
ProcAfter_Exit(res) == IF res.ok THEN proc ELSE "aborted"

\* a failed statement fails its request and nothing else: main keeps serving
ProcAfter(res) == proc

----------------------------------------------------------------------------
(* Requests in flight.  A statement and its result are one step of the     *)
(* store: a statement that fails has had no effect.                        *)

Task(kind, raw) ==
    [kind |-> kind, raw |-> raw, entered |-> FALSE, payload |-> NoPayload,
     order_date |-> 0, pc |-> "respond", status |-> 0, body |-> <<>>]

Tasks == BagToSet(inflight)
Replace(t, t2) == (inflight (-) SetToBag({t})) (+) SetToBag({t2})
Count(S) == BagCardinality([t \in S |-> inflight[t]])
InFlight == BagCardinality(inflight)

----------------------------------------------------------------------------
(* main: startup *)

\* std::env::var("DATABASE_URL").expect(..) after dotenv().ok()
AfterEnv(present) == IF present THEN "connect" ELSE "aborted"
\* faulty variant: main goes on without a pool when the connection fails
AfterConnect_Lenient(connected) == "bind"

\* PgPoolOptions::new().max_connections(5).connect(..).await.expect(..)
AfterConnect(connected) == IF connected THEN "bind" ELSE "aborted"
\* axum::Server::bind(&addr) panics when the address cannot be bound
AfterBind(bound) == IF bound THEN "serving" ELSE "aborted"

LoadEnv ==
    /\ proc = "start"
    /\ proc' = AfterEnv(env_url \/ dotenv_url)
    /\ UNCHANGED <<env_url, dotenv_url, port_free, store_up, n_connect, pool_created,
                   checked_out, product, customer, orders, orders0, now, inflight,
                   returned, logged>>

Connect ==
    /\ proc = "connect"
    /\ n_connect' = n_connect + 1
    /\ pool_created' = store_up
    /\ proc' = AfterConnect(store_up)
    /\ UNCHANGED <<env_url, dotenv_url, port_free, store_up, checked_out, product,
                   customer, orders, orders0, now, inflight, returned, logged>>

Bind ==
    /\ proc = "bind"
    /\ proc' = AfterBind(port_free)
    /\ UNCHANGED <<env_url, dotenv_url, port_free, store_up, n_connect, pool_created,
                   checked_out, product, customer, orders, orders0, now, inflight,
                   returned, logged>>

----------------------------------------------------------------------------
(* Serving: a request arrives, is routed and runs to its first await *)

Listening == proc = "serving"

\* add_order tasks whose INSERT has not executed yet
PendingInserts == Count({t \in Tasks : t.kind = "add_order" /\ t.pc # "respond"})

ArriveGet(kind, limit) ==
    /\ Listening
    /\ InFlight < limit
    /\ inflight' = inflight (+) SetToBag({
            [Task(kind, NoBody) EXCEPT !.entered = TRUE, !.pc = "acquire"]})
    /\ UNCHANGED <<proc, env_url, dotenv_url, port_free, store_up, n_connect,
                   pool_created, checked_out, product, customer, orders, orders0, now,
                   returned, logged>>

ArrivePost(raw, limit, cap) ==
    /\ Listening
    /\ InFlight < limit
    /\ IF JsonRejection(raw) # 0
       THEN inflight' = inflight (+) SetToBag({
                [Task("add_order", raw) EXCEPT !.status = JsonRejection(raw)]})
       ELSE /\ Len(orders) + PendingInserts < cap
            /\ inflight' = inflight (+) SetToBag({
                [Task("add_order", raw) EXCEPT
                    !.entered = TRUE, !.pc = "acquire",
                    !.payload = NewOrder(raw.members), !.order_date = now]})
    /\ UNCHANGED <<proc, env_url, dotenv_url, port_free, store_up, n_connect,
                   pool_created, checked_out, product, customer, orders, orders0, now,
                   returned, logged>>

\* faulty variant: the pool is left at its default size of 10
PoolHasIdle_Default == checked_out < 10

\* the pool hands out a connection only while fewer than max_connections are out
PoolHasIdle == checked_out < max_connections

Acquire(t) ==
    /\ t.pc = "acquire"
    /\ PoolHasIdle
    /\ checked_out' = checked_out + 1
    /\ inflight' = Replace(t, [t EXCEPT !.pc = "query"])
    /\ UNCHANGED <<proc, env_url, dotenv_url, port_free, store_up, n_connect,
                   pool_created, product, customer, orders, orders0, now, returned, logged>>

\* the handler resumes with the statement's result, logs and builds its response
Finish(t, res) ==
    /\ inflight' = Replace(t, [t EXCEPT
            !.pc = "respond",
            !.status = HandlerReturn(res).status,
            !.body = HandlerReturn(res).body])
    /\ logged' = logged \cup HandlerLogs(res)
    /\ proc' = ProcAfter(res)
    /\ checked_out' = checked_out - 1

\* fetch_all of a GET handler
QueryGet(t) ==
    /\ t.pc = "query"
    /\ t.kind \in GetKinds
    /\ LET h == GetHandler(t.kind)
           res == IF store_up THEN FromRow(SelectRows(h.stmt), h.fields)
                  ELSE Err("unreachable")
       IN Finish(t, res)
    /\ UNCHANGED <<env_url, dotenv_url, port_free, store_up, n_connect,
                   pool_created, product, customer, orders, orders0, now, returned>>

\* fetch_one of add_order: INSERT .. RETURNING
QueryPost(t, cap) ==
    /\ t.pc = "query"
    /\ t.kind = "add_order"
    /\ LET h == add_order(t.payload, t.order_date) IN
        \/ /\ ~store_up
           /\ Finish(t, Err("unreachable"))
           /\ orders' = orders
        \/ /\ store_up
           /\ ~ForeignKeysHold(InsertedRow(h.stmt, 0))
           /\ Finish(t, Err("constraint"))
           /\ orders' = orders
        \/ /\ store_up
           /\ ForeignKeysHold(InsertedRow(h.stmt, 0))
           /\ \E id \in FreshIds(cap) :
                /\ orders' = InsertInto(orders, InsertedRow(h.stmt, id))
                /\ Finish(t, FromRow(<<Project(InsertedRow(h.stmt, id), h.stmt.cols)>>, h.fields))
    /\ UNCHANGED <<env_url, dotenv_url, port_free, store_up, n_connect,
                   pool_created, product, customer, orders0, now, returned>>

\* the response is sent and the task ends
Respond(t) ==
    /\ t.pc = "respond"
    /\ inflight' = inflight (-) SetToBag({t})
    /\ returned' = IF t.kind \in {"add_order", "get_orders"} /\ t.status = OK
                   THEN returned \cup Range(t.body) ELSE returned
    /\ UNCHANGED <<proc, env_url, dotenv_url, port_free, store_up, n_connect,
                   pool_created, checked_out, product, customer, orders, orders0, now,
                   logged>>

----------------------------------------------------------------------------
(* The environment: the store goes away and comes back; time passes *)

ToggleStore ==
    /\ store_up' = ~store_up
    /\ UNCHANGED <<proc, env_url, dotenv_url, port_free, n_connect, pool_created,
                   checked_out, product, customer, orders, orders0, now, inflight,
                   returned, logged>>

Tick ==
    /\ now < MaxClock
    /\ now' = now + 1
    /\ UNCHANGED <<proc, env_url, dotenv_url, port_free, store_up, n_connect,
                   pool_created, checked_out, product, customer, orders, orders0,
                   inflight, returned, logged>>

----------------------------------------------------------------------------
(* Specifications *)

Init ==
    /\ proc = "start"
    /\ env_url \in BOOLEAN
    /\ dotenv_url \in BOOLEAN
    /\ port_free \in BOOLEAN
    /\ store_up \in BOOLEAN
    /\ n_connect = 0
    /\ pool_created = FALSE
    /\ checked_out = 0
    /\ product \in InitProducts
    /\ customer \in InitCustomers
    /\ orders \in InitOrders
    /\ orders0 = orders
    /\ now = 0
    /\ inflight = EmptyBag
    /\ returned = {}
    /\ logged = {}

\* Spec: concurrent requests on every route with well-formed bodies
InitServing ==
    /\ Init
    /\ env_url /\ ~dotenv_url /\ port_free

Next ==
    \/ LoadEnv
    \/ Connect
    \/ Bind
    \/ \E kind \in GetKinds : ArriveGet(kind, MaxInFlight)
    \/ \E raw \in WellFormedBodies : ArrivePost(raw, MaxInFlight, MaxOrders)
    \/ \E t \in Tasks : Acquire(t)
    \/ \E t \in Tasks : QueryGet(t)
    \/ \E t \in Tasks : QueryPost(t, MaxOrders)
    \/ \E t \in Tasks : Respond(t)
    \/ ToggleStore

Spec == InitServing /\ [][Next]_vars

\* SpecStartup: every environment of main, every request body, the clock
NextStartup ==
    \/ LoadEnv
    \/ Connect
    \/ Bind
    \/ \E kind \in GetKinds : ArriveGet(kind, MaxStartupLoad)
    \/ \E raw \in WellFormedBodies \cup MalformedBodies :
            ArrivePost(raw, MaxStartupLoad, MaxStartupOrders)
    \/ \E t \in Tasks : Acquire(t)
    \/ \E t \in Tasks : QueryGet(t)
    \/ \E t \in Tasks : QueryPost(t, MaxStartupOrders)
    \/ \E t \in Tasks : Respond(t)
    \/ ToggleStore
    \/ Tick

SpecStartup == Init /\ [][NextStartup]_vars

\* SpecPool: more requests than the pool has connections, on every route
PoolLoadBody == RawBody(TRUE, TRUE, Members(JUuid(99), JUuid(11), JInt(3)))

InitPool ==
    /\ InitServing
    /\ Len(product) = 1
    /\ orders = <<>>

NextPool ==
    \/ LoadEnv
    \/ Connect
    \/ Bind
    \/ \E kind \in GetKinds : ArriveGet(kind, MaxPoolLoad)
    \/ ArrivePost(PoolLoadBody, MaxPoolLoad, MaxOrders)
    \/ \E t \in Tasks : Acquire(t)
    \/ \E t \in Tasks : QueryGet(t)
    \/ \E t \in Tasks : QueryPost(t, MaxOrders)
    \/ \E t \in Tasks : Respond(t)
    \/ ToggleStore

SpecPool == InitPool /\ [][NextPool]_vars

----------------------------------------------------------------------------
(* Properties.  A step in which the statement of task t executes and its   *)
(* handler builds the response t2; a step in which request t2 arrives; a   *)
(* step in which the response of t is sent.                                *)

Queried(t, t2) ==
    /\ t.pc = "query"
    /\ t2.pc = "respond"
    /\ inflight' = Replace(t, t2)

Arrived(t2) == inflight' = inflight (+) SetToBag({t2})

Responded(t) == t.pc = "respond" /\ inflight' = inflight (-) SetToBag({t})

AtRespond(kind, status) ==
    {t \in Tasks : t.kind = kind /\ t.pc = "respond" /\ t.status = status}

ValidReferences(payload) ==
    /\ payload.customer_id \in Ids(customer)
    /\ payload.product_id \in Ids(product)

\* the rows of the table behind each GET route
ResourceRows(kind) ==
    CASE kind = "get_products" -> product
      [] kind = "get_customers" -> customer
      [] kind = "get_orders" -> orders

\* C1: a POST /orders whose body deserializes to {C, P, Q} with C and P
\* existing rows, executed while the store is reachable, is answered 200 with
\* an Order carrying C, P, Q and an id no stored Order has, and the row is
\* stored; every GET /orders whose query executes after a 200 response was
\* sent carries the created rows of that response.
C1_AddOrderCreates ==
    [][\A t \in Tasks : \A t2 \in BagToSet(inflight') :
        Queried(t, t2) =>
            /\ (/\ t.kind = "add_order"
                /\ t.payload = NewOrder(t.raw.members)
                /\ ValidReferences(t.payload)
                /\ store_up)
               => /\ t2.status = 200
                  /\ Len(t2.body) = 1
                  /\ DOMAIN t2.body[1] = OrderFields
                  /\ t2.body[1].customer_id = t.raw.members.customer_id.v
                  /\ t2.body[1].product_id = t.raw.members.product_id.v
                  /\ t2.body[1].quantity = t.raw.members.quantity.v
                  /\ t2.body[1].id \notin Ids(orders)
                  /\ t2.body[1] \in Range(orders')
            /\ (t.kind = "get_orders" /\ t2.status = 200)
               => \A r \in returned \ Range(orders0) : r \in Range(t2.body)
    ]_vars

\* a GET /orders answered 200 with a row that add_order created and whose
\* own response has been sent
C1_Witness ==
    \E t \in AtRespond("get_orders", 200) : \E r \in Range(t.body) :
        /\ r \in returned
        /\ r \notin Range(orders0)
        /\ r.quantity = 3
        /\ \A u \in AtRespond("add_order", 200) : r \notin Range(u.body)

\* C2: a POST /orders whose customer_id or product_id references no existing
\* row is answered 500, and no step of such a request (its arrival, taking a
\* connection, its statement, its response) changes the Order rows, however
\* often it is repeated.
C2_DanglingReferenceRejected ==
    [][\A t \in Tasks \cup BagToSet(inflight') :
        (t.kind = "add_order" /\ t.entered /\ ~ValidReferences(t.payload))
            => /\ CopiesIn(t, inflight') # CopiesIn(t, inflight) => orders' = orders
               /\ \A t2 \in BagToSet(inflight') : Queried(t, t2) => t2.status = 500
    ]_vars

\* the store was reachable, a request with a dangling reference was answered
\* 500, and a second such request is in flight
C2_Witness ==
    /\ "constraint" \in logged
    /\ \E t \in AtRespond("add_order", 500) : ~ValidReferences(t.payload)
    /\ \E t \in Tasks : t.kind = "add_order" /\ t.pc = "query" /\ ~ValidReferences(t.payload)

\* C5: each GET route, executed while the store is reachable, is answered 200
\* with exactly the rows its table holds when the query executes, in storage
\* order, each row with all its fields.
C5_ListsExactlyStoredRows ==
    [][\A t \in Tasks : \A t2 \in BagToSet(inflight') :
        (Queried(t, t2) /\ t.kind \in GetKinds /\ store_up)
            => (t2.status = 200 /\ t2.body = ResourceRows(t.kind))
    ]_vars

\* GET /orders answered with two stored rows while GET /customers is answered too
C5_Witness ==
    /\ \E t \in AtRespond("get_orders", 200) : Len(t.body) = 2 /\ t.body = orders
    /\ \E t \in AtRespond("get_customers", 200) : t.body = customer

\* C3: a POST /orders whose body does not deserialize into NewOrder (a field
\* missing, quantity not an i32, an identifier not a UUID, bytes that are not
\* JSON, no JSON content type) is answered with a 4xx status; the handler
\* body is not entered, no connection is taken, nothing is logged and no
\* Order row is created.
C3_MalformedBodyRejected ==
    /\ [](\A t \in Tasks :
            (t.kind = "add_order" /\ t.raw \in MalformedBodies)
                => /\ t.pc = "respond"
                   /\ ~t.entered
                   /\ t.status \in 400..499
                   /\ t.status \notin {200, 500})
    /\ [][\A t \in Tasks \cup BagToSet(inflight') :
            (/\ t.kind = "add_order"
             /\ t.raw \in MalformedBodies
             /\ (Arrived(t) \/ Responded(t)))
                => (orders' = orders /\ checked_out' = checked_out /\ logged' = logged)
       ]_vars

\* a request without the quantity field is answered 422 and the store is as
\* it was when the process started
C3_Witness ==
    /\ \E t \in AtRespond("add_order", 422) : "quantity" \notin DOMAIN t.raw.members
    /\ returned = {}
    /\ orders = orders0
    /\ pool_created

\* C4: POST /orders requests running concurrently: a request is answered 200
\* exactly when its statement adds one row, that row is the one it returns,
\* its id is new, no other step adds a row, and the ids of the rows are
\* pairwise distinct.
C4_ConcurrentCreatesDistinct ==
    /\ [](/\ Cardinality(Ids(orders)) = Len(orders)
          /\ \A t \in AtRespond("add_order", 200) :
                /\ inflight[t] = 1
                /\ Len(t.body) = 1
                /\ t.body[1] \in Range(orders)
                /\ \A u \in AtRespond("add_order", 200) :
                        u # t => u.body[1].id # t.body[1].id)
    /\ [][/\ \A t \in Tasks : \A t2 \in BagToSet(inflight') :
                (Queried(t, t2) /\ t.kind = "add_order")
                    => IF t2.status = 200
                       THEN /\ Len(t2.body) = 1
                            /\ orders' = Append(orders, t2.body[1])
                            /\ t2.body[1].id \notin Ids(orders)
                       ELSE orders' = orders
          /\ orders' # orders
                => \E t \in Tasks : \E t2 \in BagToSet(inflight') :
                        Queried(t, t2) /\ t.kind = "add_order" /\ t2.status = 200
       ]_vars

\* two requests created one row each and neither response has been sent yet
C4_Witness ==
    /\ Cardinality(AtRespond("add_order", 200)) = 2
    /\ Len(orders) = Len(orders0) + 2

\* C6: once main serves, a statement that finds the store unreachable fails
\* its request with 500 and main keeps serving; a request whose statement
\* executes when the store is reachable again is answered 200.
C6_StoreFailureIsPerRequest ==
    [][/\ \A t \in Tasks : \A t2 \in BagToSet(inflight') :
            /\ (Queried(t, t2) /\ ~store_up)
                    => (t2.status = 500 /\ proc' = "serving")
            /\ (/\ Queried(t, t2)
                /\ store_up
                /\ "unreachable" \in logged
                /\ (t.kind \in GetKinds \/ ValidReferences(t.payload)))
                    => t2.status = 200
       /\ Listening => proc' = "serving"
    ]_vars

\* a request failed on the unreachable store and a GET is answered 200
C6_Witness ==
    /\ Listening
    /\ store_up
    /\ "unreachable" \in logged
    /\ AtRespond("get_products", 200) # {}

\* C7: main ends when DATABASE_URL is absent or the connection to the store
\* fails: it connects at most once, never goes on to bind, stays ended, and
\* no request is handled unless the pool has been created.
C7_StartupIsFatal ==
    /\ [](/\ n_connect <= 1
          /\ ~(env_url \/ dotenv_url) => (proc \in {"start", "aborted"} /\ n_connect = 0)
          /\ (n_connect = 1 /\ ~pool_created) => proc = "aborted"
          /\ (\/ Listening
              \/ inflight # EmptyBag
              \/ checked_out > 0
              \/ returned # {}
              \/ logged # {}
              \/ orders # orders0) => pool_created
          /\ proc = "aborted" => inflight = EmptyBag)
    /\ [][proc = "aborted" => proc' = "aborted"]_vars

\* the store was unreachable when main connected
C7_Witness == proc = "aborted" /\ n_connect = 1 /\ ~pool_created /\ ~store_up

\* the number of tasks of a bag that wait for a connection
Waiting(bag) == BagCardinality([t \in {u \in BagToSet(bag) : u.pc = "acquire"} |-> bag[t]])

C9_ReferentialIntegrity ==
    \A i \in DOMAIN orders :
        /\ orders[i].customer_id \in Ids(customer)
        /\ orders[i].product_id \in Ids(product)

\* a row was created after a request with a dangling reference was refused
C9_Witness ==
    /\ Len(orders) > Len(orders0)
    /\ "constraint" \in logged

\* C10: no step changes the product or the customer table, or changes or
\* removes a stored Order; the GET handlers change no table; a row a 200
\* response carried stays stored and is carried by every later 200 response
\* of GET /orders.
C10_NothingChangedOrRemoved ==
    /\ [](returned \subseteq Range(orders))
    /\ [][/\ product' = product
          /\ customer' = customer
          /\ Len(orders') >= Len(orders)
          /\ SubSeq(orders', 1, Len(orders)) = orders
          /\ \A t \in Tasks : \A t2 \in BagToSet(inflight') :
                /\ (Queried(t, t2) /\ t.kind \in GetKinds) => orders' = orders
                /\ (Queried(t, t2) /\ t.kind = "get_orders" /\ t2.status = 200)
                        => returned \subseteq Range(t2.body)
       ]_vars

\* a GET /orders answered with the rows earlier responses carried, after the
\* table has grown
C10_Witness ==
    /\ Len(orders) > Len(orders0)
    /\ Len(orders0) > 0
    /\ \E t \in AtRespond("get_orders", 200) :
            /\ Range(orders0) \subseteq returned
            /\ returned \subseteq Range(t.body)
            /\ Len(t.body) > Len(orders0)

====
